---- MODULE Spec2Model ----
(***************************************************************************)
(* DEXBot2 dashboard: the snapshot builder (state.rs), the action          *)
(* catalogue and executor (actions.rs), the application state machine      *)
(* (app.rs) and the run loop (main.rs).                                    *)
(*                                                                         *)
(* Text is modelled as a sequence of one-character strings, so that        *)
(* upper-casing, trimming, substring search and extensions are computed.   *)
(* An Option<T> is a record [some |-> BOOLEAN, v |-> T].                   *)
(***************************************************************************)
EXTENDS Integers, Sequences, FiniteSets, TLC

\* ------------------------------------------------------------------ text

Some(x) == [some |-> TRUE, v |-> x]
NoText == [some |-> FALSE, v |-> <<>>]
NoFlag == [some |-> FALSE, v |-> FALSE]

LowerLetters ==
  <<"a","b","c","d","e","f","g","h","i","j","k","l","m",
    "n","o","p","q","r","s","t","u","v","w","x","y","z">>
UpperLetters ==
  <<"A","B","C","D","E","F","G","H","I","J","K","L","M",
    "N","O","P","Q","R","S","T","U","V","W","X","Y","Z">>
Digits == <<"0","1","2","3","4","5","6","7","8","9">>

Range(s) == {s[i] : i \in DOMAIN s}

AsciiAlphanumeric == Range(LowerLetters) \cup Range(UpperLetters) \cup Range(Digits)

\* char::is_ascii_alphanumeric
is_ascii_alphanumeric(c) == c \in AsciiAlphanumeric

\* char::to_ascii_uppercase
to_ascii_uppercase(c) ==
  IF c \in Range(LowerLetters)
    THEN UpperLetters[CHOOSE i \in DOMAIN LowerLetters : LowerLetters[i] = c]
    ELSE c

\* char lower-casing, as str::to_lowercase applies it to ASCII text
to_ascii_lowercase(c) ==
  IF c \in Range(UpperLetters)
    THEN LowerLetters[CHOOSE i \in DOMAIN UpperLetters : UpperLetters[i] = c]
    ELSE c

\* str::to_ascii_uppercase
str_to_ascii_uppercase(s) == [i \in DOMAIN s |-> to_ascii_uppercase(s[i])]

\* str::to_lowercase
to_lowercase(s) == [i \in DOMAIN s |-> to_ascii_lowercase(s[i])]

\* str::contains(&str)
contains(hay, needle) ==
  \E i \in 0..Len(hay) :
    /\ i + Len(needle) <= Len(hay)
    /\ \A j \in 1..Len(needle) : hay[i + j] = needle[j]

\* str::starts_with, read as: s is a prefix of t
IsPrefix(s, t) == Len(s) <= Len(t) /\ SubSeq(t, 1, Len(s)) = s

\* decimal rendering of a natural number, as format!("{}", n)
RECURSIVE Decimal(_)
Decimal(n) ==
  IF n < 10 THEN <<Digits[n + 1]>>
  ELSE Decimal(n \div 10) \o <<Digits[(n % 10) + 1]>>

\* Path::extension of a file name: the text after the last '.', none when
\* there is no '.' or the only '.' is the first character.
extension(file_name) ==
  LET dots == {i \in DOMAIN file_name : file_name[i] = "."}
      last == CHOOSE i \in dots : \A j \in dots : j <= i
  IN IF dots = {} \/ last = 1 THEN NoText
     ELSE Some(SubSeq(file_name, last + 1, Len(file_name)))

DotLog == <<".","l","o","g">>
LogExt == <<"l","o","g">>
LogsDirPrefix == <<"profiles/logs/">>

\* ------------------------------------------------------- snapshot builder
\* The world one aggregation pass reads is a record
\*   [pm2 |-> [kind, items], registry |-> [kind, entries], logs |-> [dir_exists,
\*    dir_readable, files]]
\* pm2.kind: "spawn_error" | "exit_nonzero" | "bad_json" | "not_array" | "array";
\*   an item is [name |-> Option text, status |-> [some, v |-> STRING]].
\* registry.kind: "absent" | "unreadable" | "malformed" | "parsed";
\*   an entry is [name |-> Option text, asset_a, asset_b |-> text, active |-> Option flag].
\* logs.files is the directory in read_dir order; a file is
\*   [file_name |-> text, mtime |-> [some, v |-> Nat], readable, lines |-> Seq(text)].

NoStatus == [some |-> FALSE, v |-> ""]
NoTime == [some |-> FALSE, v |-> 0]

TAIL_MAX_LINES == 10

EmptySnapshot ==
  [bots |-> <<>>, warnings |-> 0, pm2_online |-> FALSE, pm2_processes |-> 0,
   alerts |-> <<>>]

\* load_pm2_status that reports the supervisor online when the query failed
load_pm2_status_online_on_failure(pm2) ==
  IF pm2.kind # "array" THEN [map |-> <<>>, online |-> TRUE]
  ELSE
    LET items == pm2.items
        item_name(i) == IF items[i].name.some THEN items[i].name.v ELSE <<>>
        kept == {i \in DOMAIN items : item_name(i) # <<>>}
        names == {item_name(i) : i \in kept}
        last_of(n) == CHOOSE i \in kept :
                        /\ item_name(i) = n
                        /\ \A j \in kept : item_name(j) = n => j <= i
    IN [map |-> [n \in names |->
                   IF items[last_of(n)].status.some
                     THEN items[last_of(n)].status.v ELSE "unknown"],
        online |-> TRUE]

\* load_pm2_status: (map from process name to status, online)
load_pm2_status(pm2) ==
  IF pm2.kind # "array" THEN [map |-> <<>>, online |-> FALSE]
  ELSE
    LET items == pm2.items
        item_name(i) == IF items[i].name.some THEN items[i].name.v ELSE <<>>
        kept == {i \in DOMAIN items : item_name(i) # <<>>}
        names == {item_name(i) : i \in kept}
        last_of(n) == CHOOSE i \in kept :
                        /\ item_name(i) = n
                        /\ \A j \in kept : item_name(j) = n => j <= i
    IN [map |-> [n \in names |->
                   IF items[last_of(n)].status.some
                     THEN items[last_of(n)].status.v ELSE "unknown"],
        online |-> TRUE]

\* the sort key entry.metadata().and_then(|m| m.modified()).ok(): None sorts first
modified_key(f) == IF f.mtime.some THEN f.mtime.v + 1 ELSE 0

\* Vec::sort_by_key on the modification key, a stable sort: each element is
\* inserted after every element whose key is less than or equal to its own.
RECURSIVE insert_by_key(_, _)
insert_by_key(sorted, x) ==
  IF sorted = <<>> THEN <<x>>
  ELSE IF modified_key(sorted[Len(sorted)]) <= modified_key(x) THEN Append(sorted, x)
  ELSE Append(insert_by_key(SubSeq(sorted, 1, Len(sorted) - 1), x),
              sorted[Len(sorted)])

RECURSIVE sort_by_key(_)
sort_by_key(s) ==
  IF s = <<>> THEN <<>>
  ELSE insert_by_key(sort_by_key(SubSeq(s, 1, Len(s) - 1)), s[Len(s)])

Reverse(s) == [i \in DOMAIN s |-> s[Len(s) + 1 - i]]

\* resolve_bot_log_path without the exact-name fast path: always the scan
resolve_bot_log_path_scan_only(logs, bot_name) ==
  LET is_log(f) == LET e == extension(f.file_name) IN e.some /\ e.v = LogExt
      matches(f) == contains(to_lowercase(f.file_name), to_lowercase(bot_name))
  IN IF ~logs.dir_exists THEN NoText
     ELSE IF ~logs.dir_readable THEN NoText
     ELSE
       LET candidates == sort_by_key(SelectSeq(logs.files, is_log))
           found == SelectSeq(Reverse(candidates), matches)
       IN IF found = <<>> THEN NoText
          ELSE Some(LogsDirPrefix \o found[1].file_name)

\* resolve_bot_log_path
resolve_bot_log_path(logs, bot_name) ==
  LET direct == bot_name \o DotLog
      is_log(f) == LET e == extension(f.file_name) IN e.some /\ e.v = LogExt
      matches(f) == contains(to_lowercase(f.file_name), to_lowercase(bot_name))
  IN IF logs.dir_exists /\ \E i \in DOMAIN logs.files : logs.files[i].file_name = direct
       THEN Some(LogsDirPrefix \o direct)
     ELSE IF ~logs.dir_exists THEN NoText
     ELSE IF ~logs.dir_readable THEN NoText
     ELSE
       LET candidates == sort_by_key(SelectSeq(logs.files, is_log))
           found == SelectSeq(Reverse(candidates), matches)
       IN IF found = <<>> THEN NoText
          ELSE Some(LogsDirPrefix \o found[1].file_name)

\* tail_lines without the .rev(): the first max_lines lines
tail_lines_from_start(logs, path, max_lines) ==
  LET hits == {i \in DOMAIN logs.files : LogsDirPrefix \o logs.files[i].file_name = path}
      f == logs.files[CHOOSE i \in hits : TRUE]
  IN IF hits = {} \/ ~f.readable THEN <<>>
     ELSE IF Len(f.lines) <= max_lines THEN f.lines
     ELSE SubSeq(f.lines, 1, max_lines)

\* tail_lines
tail_lines(logs, path, max_lines) ==
  LET hits == {i \in DOMAIN logs.files : LogsDirPrefix \o logs.files[i].file_name = path}
      f == logs.files[CHOOSE i \in hits : TRUE]
  IN IF hits = {} \/ ~f.readable THEN <<>>
     ELSE IF Len(f.lines) <= max_lines THEN f.lines
     ELSE SubSeq(f.lines, Len(f.lines) - max_lines + 1, Len(f.lines))

MarkerError == <<"E","R","R","O","R">>
MarkerWarn == <<"W","A","R","N">>
MarkerFatal == <<"F","A","T","A","L">>

\* has_error_marker
has_error_marker(line) ==
  LET upper == str_to_ascii_uppercase(line)
  IN contains(upper, MarkerError) \/ contains(upper, MarkerWarn)
       \/ contains(upper, MarkerFatal)

AlertPm2 == <<"PM2 unavailable (pm2 jlist failed or not installed).">>
AlertNoRegistry == <<"profiles/bots.json not found.">>
AlertMarkerSuffix == <<": error/warn marker found in recent log lines.">>
SentinelPair == <<"?","/"," ","?">>
BotPrefix == <<"b","o","t","-">>

\* bot_status that looks at the configured active flag before the supervisor
bot_status_config_first(env, pm2_map, index, entry) ==
  LET name == IF entry.name.some THEN entry.name.v ELSE BotPrefix \o Decimal(index + 1)
      bad_pair == entry.asset_a = <<>> \/ entry.asset_b = <<>>
      pair == IF bad_pair THEN SentinelPair
              ELSE entry.asset_a \o <<"/">> \o entry.asset_b
      active == IF entry.active.some THEN entry.active.v ELSE TRUE
      runtime_status == IF ~active THEN "disabled"
                        ELSE IF name \in DOMAIN pm2_map THEN pm2_map[name]
                        ELSE "not-running"
      log_path == resolve_bot_log_path(env.logs, name)
      log_tail == IF log_path.some THEN tail_lines(env.logs, log_path.v, TAIL_MAX_LINES)
                  ELSE <<>>
      marker == \E i \in DOMAIN log_tail : has_error_marker(log_tail[i])
  IN [bot |-> [name |-> name, pair |-> pair, active |-> active,
               runtime_status |-> runtime_status, log_path |-> log_path,
               log_tail |-> log_tail],
      warnings |-> (IF bad_pair THEN 1 ELSE 0) + (IF marker THEN 1 ELSE 0),
      alerts |-> IF marker THEN <<name \o AlertMarkerSuffix>> ELSE <<>>]

\* one iteration of the loop over parsed.bots.iter().enumerate(); index is 0-based
bot_status(env, pm2_map, index, entry) ==
  LET name == IF entry.name.some THEN entry.name.v ELSE BotPrefix \o Decimal(index + 1)
      bad_pair == entry.asset_a = <<>> \/ entry.asset_b = <<>>
      pair == IF bad_pair THEN SentinelPair
              ELSE entry.asset_a \o <<"/">> \o entry.asset_b
      active == IF entry.active.some THEN entry.active.v ELSE TRUE
      runtime_status == IF name \in DOMAIN pm2_map THEN pm2_map[name]
                        ELSE IF active THEN "not-running" ELSE "disabled"
      log_path == resolve_bot_log_path(env.logs, name)
      log_tail == IF log_path.some THEN tail_lines(env.logs, log_path.v, TAIL_MAX_LINES)
                  ELSE <<>>
      marker == \E i \in DOMAIN log_tail : has_error_marker(log_tail[i])
  IN [bot |-> [name |-> name, pair |-> pair, active |-> active,
               runtime_status |-> runtime_status, log_path |-> log_path,
               log_tail |-> log_tail],
      warnings |-> (IF bad_pair THEN 1 ELSE 0) + (IF marker THEN 1 ELSE 0),
      alerts |-> IF marker THEN <<name \o AlertMarkerSuffix>> ELSE <<>>]

\* the loop over the registry entries, folded from the first entry to the last
RECURSIVE scan_entries(_, _, _, _)
scan_entries(env, pm2_map, entries, acc) ==
  IF Len(acc.bots) = Len(entries) THEN acc
  ELSE LET index == Len(acc.bots)
           r == bot_status(env, pm2_map, index, entries[index + 1])
       IN scan_entries(env, pm2_map, entries,
            [bots |-> Append(acc.bots, r.bot),
             warnings |-> acc.warnings + r.warnings,
             alerts |-> acc.alerts \o r.alerts])

\* load_snapshot that reports a registry it cannot parse like a missing one
load_snapshot_malformed_reported(env) ==
  LET pm2 == load_pm2_status(env.pm2)
      pm2_processes == Cardinality(DOMAIN pm2.map)
      start == [bots |-> <<>>,
                warnings |-> IF pm2.online THEN 0 ELSE 1,
                alerts |-> IF pm2.online THEN <<>> ELSE <<AlertPm2>>]
      done(acc) == [ok |-> TRUE, err |-> "",
                    snapshot |-> [bots |-> acc.bots, warnings |-> acc.warnings,
                                  pm2_online |-> pm2.online,
                                  pm2_processes |-> pm2_processes,
                                  alerts |-> acc.alerts]]
  IN CASE env.registry.kind = "absent" ->
            done([start EXCEPT !.warnings = @ + 1, !.alerts = Append(@, AlertNoRegistry)])
       [] env.registry.kind = "unreadable" ->
            [ok |-> FALSE, err |-> "read profiles/bots.json failed", snapshot |-> EmptySnapshot]
       [] env.registry.kind = "malformed" ->
            done([start EXCEPT !.warnings = @ + 1, !.alerts = Append(@, AlertNoRegistry)])
       [] OTHER -> done(scan_entries(env, pm2.map, env.registry.entries, start))

\* load_snapshot: [ok |-> TRUE, snapshot |-> ...] or [ok |-> FALSE, err |-> ...]
load_snapshot(env) ==
  LET pm2 == load_pm2_status(env.pm2)
      pm2_processes == Cardinality(DOMAIN pm2.map)
      start == [bots |-> <<>>,
                warnings |-> IF pm2.online THEN 0 ELSE 1,
                alerts |-> IF pm2.online THEN <<>> ELSE <<AlertPm2>>]
      done(acc) == [ok |-> TRUE, err |-> "",
                    snapshot |-> [bots |-> acc.bots, warnings |-> acc.warnings,
                                  pm2_online |-> pm2.online,
                                  pm2_processes |-> pm2_processes,
                                  alerts |-> acc.alerts]]
  IN CASE env.registry.kind = "absent" ->
            done([start EXCEPT !.warnings = @ + 1, !.alerts = Append(@, AlertNoRegistry)])
       [] env.registry.kind = "unreadable" ->
            [ok |-> FALSE, err |-> "read profiles/bots.json failed", snapshot |-> EmptySnapshot]
       [] env.registry.kind = "malformed" -> done(start)
       [] OTHER -> done(scan_entries(env, pm2.map, env.registry.entries, start))

\* ------------------------------------------------- catalogue and executor

\* Risk::label is the tier's own lower-case name
RiskLabel(risk) ==
  CASE risk = "Safe" -> "safe" [] risk = "Confirm" -> "confirm" [] OTHER -> "danger"

\* dashboard_actions: the fixed catalogue; Rust index i is element i + 1
dashboard_actions ==
  << [name |-> "Check Update Status", command |-> "bash",
      args |-> <<"scripts/check-update.sh">>, risk |-> "Safe"],
     [name |-> "Validate Bots Config", command |-> "node",
      args |-> <<"scripts/validate_bots.js">>, risk |-> "Safe"],
     [name |-> "Analyze Orders", command |-> "node",
      args |-> <<"scripts/analyze-orders.js">>, risk |-> "Safe"],
     [name |-> "Analyze Repo", command |-> "node",
      args |-> <<"scripts/analyze-git.js">>, risk |-> "Safe"],
     [name |-> "Create Bot Symlinks", command |-> "bash",
      args |-> <<"scripts/create-bot-symlinks.sh">>, risk |-> "Confirm"],
     [name |-> "Clear Logs", command |-> "bash",
      args |-> <<"scripts/clear-logs.sh">>, risk |-> "Danger"],
     [name |-> "Clear Orders", command |-> "bash",
      args |-> <<"scripts/clear-orders.sh">>, risk |-> "Danger"],
     [name |-> "Clear All", command |-> "bash",
      args |-> <<"scripts/clear-all.sh">>, risk |-> "Danger"] >>

ActionAt(index) == dashboard_actions[index + 1]
ActionIndices == 0..(Len(dashboard_actions) - 1)
IndicesOfRisk(risk) == {i \in ActionIndices : ActionAt(i).risk = risk}

Whitespace == {" ", "\n", "\t", "\r"}

\* str::trim
RECURSIVE trim_start(_)
trim_start(s) ==
  IF s # <<>> /\ s[1] \in Whitespace THEN trim_start(Tail(s)) ELSE s

RECURSIVE trim_end(_)
trim_end(s) ==
  IF s # <<>> /\ s[Len(s)] \in Whitespace THEN trim_end(SubSeq(s, 1, Len(s) - 1)) ELSE s

trim(s) == trim_end(trim_start(s))

\* str::trim_end_matches('\n')
RECURSIVE trim_end_newlines(_)
trim_end_newlines(s) ==
  IF s # <<>> /\ s[Len(s)] = "\n" THEN trim_end_newlines(SubSeq(s, 1, Len(s) - 1)) ELSE s

\* the {:?} rendering of Option<i32>
DebugCode(code) ==
  IF code.some THEN <<"Some(">> \o Decimal(code.v) \o <<")">> ELSE <<"None">>

SpawnErrorText == <<"No such file or directory (os error 2)">>

\* execute that takes every child that ran for a success, whatever its status
execute_any_exit(action, run) ==
  LET risk == RiskLabel(action.risk)
      head == <<"[", risk, "] ", action.name>>
  IN IF ~run.spawned THEN [ok |-> FALSE, text |-> SpawnErrorText]
     ELSE LET body == IF trim(run.stdout) = <<>> THEN trim(run.stderr)
                      ELSE trim(run.stdout)
          IN [ok |-> TRUE, text |-> head \o <<"\n">> \o trim_end_newlines(body)]

\* DashboardAction::execute on what the child process did:
\* run == [spawned |-> BOOLEAN, code |-> [some, v], stdout |-> text, stderr |-> text]
execute(action, run) ==
  LET risk == RiskLabel(action.risk)
      head == <<"[", risk, "] ", action.name>>
  IN IF ~run.spawned THEN [ok |-> FALSE, text |-> SpawnErrorText]
     ELSE IF run.code.some /\ run.code.v = 0
       THEN LET body == IF trim(run.stdout) = <<>> THEN trim(run.stderr)
                        ELSE trim(run.stdout)
            IN [ok |-> TRUE, text |-> head \o <<"\n">> \o trim_end_newlines(body)]
     ELSE [ok |-> FALSE,
           text |-> head \o <<" failed (code ">> \o DebugCode(run.code) \o <<")\n">>
                      \o trim_end_newlines(trim(run.stderr))]

\* ------------------------------------------------------------ input sets

\* the largest registry the dashboard is run against
MaxBots == 2

NoLogs == [dir_exists |-> FALSE, dir_readable |-> FALSE, files |-> <<>>]
Pm2Down == [kind |-> "spawn_error", items |-> <<>>]
PlainEntry ==
  [name |-> NoText, asset_a |-> <<"B","T","C">>, asset_b |-> <<"U","S","D">>,
   active |-> NoFlag]

\* what the files and the supervisor can look like when the dashboard rebuilds
\* its snapshot: the registry unreadable, or listing 0..MaxBots bots
Worlds ==
  {[pm2 |-> Pm2Down, logs |-> NoLogs, registry |-> [kind |-> k, entries |-> <<>>]]
     : k \in {"unreadable"}}
  \cup
  {[pm2 |-> Pm2Down, logs |-> NoLogs,
    registry |-> [kind |-> "parsed", entries |-> [i \in 1..n |-> PlainEntry]]]
     : n \in 0..MaxBots}

\* what a spawned action can do: not start; exit 0 with output on stdout; exit
\* 0 with blank stdout and output on stderr; exit non-zero; end by a signal
\* (no exit code)
ChildRuns ==
  {[spawned |-> FALSE, code |-> [some |-> FALSE, v |-> 0], stdout |-> <<>>, stderr |-> <<>>],
   [spawned |-> TRUE, code |-> [some |-> TRUE, v |-> 0],
    stdout |-> <<"o","k","\n">>, stderr |-> <<"w","\n">>],
   [spawned |-> TRUE, code |-> [some |-> TRUE, v |-> 0],
    stdout |-> <<" ","\n">>, stderr |-> <<" ","w","\n">>],
   [spawned |-> TRUE, code |-> [some |-> TRUE, v |-> 1],
    stdout |-> <<"o","k">>, stderr |-> <<"n","o","\n">>],
   [spawned |-> TRUE, code |-> [some |-> FALSE, v |-> 0],
    stdout |-> <<>>, stderr |-> <<"k","\n">>]}

\* ------------------------------------------------- application state (App)

DANGER_CONFIRM_TOKEN == <<"D","E","L","E","T","E">>

Tabs == {"Overview", "BotDetail", "Scripts", "Alerts"}

NoIndex == [some |-> FALSE, v |-> 0]
NoPending == [kind |-> "None", action_index |-> 0, typed |-> <<>>]
PendingConfirm(i) == [kind |-> "Confirm", action_index |-> i, typed |-> <<>>]
PendingDanger(i, typed) == [kind |-> "Danger", action_index |-> i, typed |-> typed]

MsgReady == <<"Ready.">>
MsgRefreshed == <<"Refreshed status data.">>
MsgAutoRefreshFailed == <<"Auto-refresh failed: ">>
MsgNoActions == <<"No actions configured.">>
MsgCancelled == <<"Action cancelled.">>
MsgDangerCancelled == <<"Danger action cancelled.">>
MsgMismatch ==
  <<"Confirmation token mismatch. Type ">> \o DANGER_CONFIRM_TOKEN
    \o <<" and press Enter.">>

Min(a, b) == IF a <= b THEN a ELSE b

\* A handler works on m == [app |-> the App, executed |-> the action indices it
\* has spawned so far, builds |-> the outcomes of its load_snapshot calls], and
\* yields the set of results the outside world allows.
Call(a) == [app |-> a, executed |-> <<>>, builds |-> <<>>]

\* the App before App::new has built it and after run has returned and dropped it
NoApp ==
  [snapshot |-> EmptySnapshot, selected_bot |-> 0, selected_action |-> 0,
   tab |-> "Overview", last_output |-> <<>>, bot_list_state |-> NoIndex,
   action_list_state |-> NoIndex, pending_action |-> NoPending]

\* what state::load_snapshot() can return to the dashboard
Builds == {load_snapshot(w) : w \in Worlds}

\* App::new
app_new ==
  {IF ~r.ok THEN [ok |-> FALSE, err |-> r.err, app |-> NoApp]
      ELSE [ok |-> TRUE, err |-> "",
            app |-> [snapshot |-> r.snapshot,
                     selected_bot |-> 0,
                     selected_action |-> 0,
                     tab |-> "Overview",
                     last_output |-> MsgReady,
                     bot_list_state |-> IF r.snapshot.bots # <<>> THEN Some(0) ELSE NoIndex,
                     action_list_state |-> IF dashboard_actions # <<>> THEN Some(0)
                                           ELSE NoIndex,
                     pending_action |-> NoPending]]
   : r \in Builds}

\* clamp_selected_bot without the clamp: the index is kept whatever the new length
clamp_selected_bot_kept(selected_bot, n) ==
  IF n = 0 THEN 0 ELSE selected_bot

\* App::reload_snapshot, the new selected_bot for a snapshot of n bots
clamp_selected_bot(selected_bot, n) ==
  IF n = 0 THEN 0 ELSE Min(selected_bot, n - 1)

\* App::reload_snapshot
reload_snapshot(m, announce) ==
  {IF ~r.ok
        THEN [ok |-> FALSE, err |-> r.err, m |-> [m EXCEPT !.builds = Append(@, "err")]]
        ELSE LET n == Len(r.snapshot.bots)
                 sel == clamp_selected_bot(m.app.selected_bot, n)
             IN [ok |-> TRUE, err |-> "",
                 m |-> [m EXCEPT !.builds = Append(@, "ok"),
                                 !.app.snapshot = r.snapshot,
                                 !.app.selected_bot = sel,
                                 !.app.bot_list_state = IF n = 0 THEN NoIndex ELSE Some(sel),
                                 !.app.last_output = IF announce THEN MsgRefreshed ELSE @]]
   : r \in Builds}

\* App::refresh
refresh(m) == reload_snapshot(m, TRUE)

\* tick held back while a confirmation is pending
tick_blocked_by_pending(m, due) ==
  IF ~due \/ m.app.pending_action.kind # "None" THEN {m}
  ELSE {IF r.ok THEN r.m
        ELSE [r.m EXCEPT !.app.last_output = MsgAutoRefreshFailed \o <<r.err>>]
        : r \in reload_snapshot(m, FALSE)}

\* App::tick; due is last_auto_refresh.elapsed() >= 1 s
tick(m, due) ==
  IF ~due THEN {m}
  ELSE {IF r.ok THEN r.m
        ELSE [r.m EXCEPT !.app.last_output = MsgAutoRefreshFailed \o <<r.err>>]
        : r \in reload_snapshot(m, FALSE)}

\* App::next_bot
next_bot(m) ==
  LET n == Len(m.app.snapshot.bots)
  IN IF n = 0
       THEN [m EXCEPT !.app.selected_bot = 0, !.app.bot_list_state = NoIndex]
       ELSE LET sel == (m.app.selected_bot + 1) % n
            IN [m EXCEPT !.app.selected_bot = sel, !.app.bot_list_state = Some(sel)]

\* App::prev_bot
prev_bot(m) ==
  LET n == Len(m.app.snapshot.bots)
  IN IF n = 0
       THEN [m EXCEPT !.app.selected_bot = 0, !.app.bot_list_state = NoIndex]
       ELSE LET sel == IF m.app.selected_bot = 0 THEN n - 1 ELSE m.app.selected_bot - 1
            IN [m EXCEPT !.app.selected_bot = sel, !.app.bot_list_state = Some(sel)]

\* App::next_action
next_action(m) ==
  LET n == Len(dashboard_actions)
  IN IF n = 0
       THEN [m EXCEPT !.app.selected_action = 0, !.app.action_list_state = NoIndex]
       ELSE LET sel == (m.app.selected_action + 1) % n
            IN [m EXCEPT !.app.selected_action = sel, !.app.action_list_state = Some(sel)]

\* prev_action that stops at index 0 instead of wrapping to the last index
prev_action_saturating(m) ==
  LET n == Len(dashboard_actions)
  IN IF n = 0
       THEN [m EXCEPT !.app.selected_action = 0, !.app.action_list_state = NoIndex]
       ELSE LET sel == IF m.app.selected_action = 0 THEN 0
                       ELSE m.app.selected_action - 1
            IN [m EXCEPT !.app.selected_action = sel, !.app.action_list_state = Some(sel)]

\* App::prev_action
prev_action(m) ==
  LET n == Len(dashboard_actions)
  IN IF n = 0
       THEN [m EXCEPT !.app.selected_action = 0, !.app.action_list_state = NoIndex]
       ELSE LET sel == IF m.app.selected_action = 0 THEN n - 1
                       ELSE m.app.selected_action - 1
            IN [m EXCEPT !.app.selected_action = sel, !.app.action_list_state = Some(sel)]

\* next_tab that stops at the last tab instead of wrapping
next_tab_saturating(m) ==
  [m EXCEPT !.app.tab = CASE @ = "Overview" -> "BotDetail"
                          [] @ = "BotDetail" -> "Scripts"
                          [] OTHER -> "Alerts"]

\* App::next_tab
next_tab(m) ==
  [m EXCEPT !.app.tab = CASE @ = "Overview" -> "BotDetail"
                          [] @ = "BotDetail" -> "Scripts"
                          [] @ = "Scripts" -> "Alerts"
                          [] OTHER -> "Overview"]

\* App::prev_tab
prev_tab(m) ==
  [m EXCEPT !.app.tab = CASE @ = "Overview" -> "Alerts"
                          [] @ = "BotDetail" -> "Overview"
                          [] @ = "Scripts" -> "BotDetail"
                          [] OTHER -> "Scripts"]

\* App::execute_action; always returns Ok(())
execute_action(m, index) ==
  IF dashboard_actions = <<>> THEN {m}
  ELSE UNION
    {LET res == execute(ActionAt(index), run)
         spawned == [m EXCEPT !.executed = Append(@, index),
                              !.app.last_output = res.text]
     IN IF res.ok THEN {r.m : r \in reload_snapshot(spawned, FALSE)}
        ELSE {spawned}
     : run \in ChildRuns}

\* run_selected_action that asks for no yes/no: a Confirm action runs at once
run_selected_action_unconfirmed(m) ==
  IF dashboard_actions = <<>>
    THEN {[m EXCEPT !.app.last_output = MsgNoActions]}
  ELSE
    LET sel == m.app.selected_action % Len(dashboard_actions)
        m1 == [m EXCEPT !.app.selected_action = sel,
                        !.app.action_list_state = Some(sel)]
        risk == ActionAt(sel).risk
    IN CASE risk \in {"Safe", "Confirm"} -> execute_action(m1, sel)
         [] OTHER -> {[m1 EXCEPT !.app.pending_action = PendingDanger(sel, <<>>)]}

\* App::run_selected_action; always returns Ok(())
run_selected_action(m) ==
  IF dashboard_actions = <<>>
    THEN {[m EXCEPT !.app.last_output = MsgNoActions]}
  ELSE
    LET sel == m.app.selected_action % Len(dashboard_actions)
        m1 == [m EXCEPT !.app.selected_action = sel,
                        !.app.action_list_state = Some(sel)]
        risk == ActionAt(sel).risk
    IN CASE risk = "Safe" -> execute_action(m1, sel)
         [] risk = "Confirm" -> {[m1 EXCEPT !.app.pending_action = PendingConfirm(sel)]}
         [] OTHER -> {[m1 EXCEPT !.app.pending_action = PendingDanger(sel, <<>>)]}

\* key codes: [k |-> "Char", c |-> the character] or [k |-> the key's name, c |-> ""]
Char(c) == [k |-> "Char", c |-> c]
Key(k) == [k |-> k, c |-> ""]

Returned(ms, ret) == {[m |-> m, ret |-> ret] : m \in ms}

\* confirm_choice with Enter taken as a yes
confirm_choice_enter(code) ==
  IF code \in {Char("y"), Char("Y"), Key("Enter")} THEN "yes"
  ELSE IF code \in {Char("n"), Char("N"), Key("Esc")} THEN "no"
  ELSE "other"

\* handle_pending_key, Confirm arm: which of its three match arms takes the key
confirm_choice(code) ==
  IF code \in {Char("y"), Char("Y")} THEN "yes"
  ELSE IF code \in {Char("n"), Char("N"), Key("Esc")} THEN "no"
  ELSE "other"

\* typed_push without the length bound
typed_push_unbounded(typed, c) ==
  IF is_ascii_alphanumeric(c)
    THEN Append(typed, to_ascii_uppercase(c))
    ELSE typed

\* typed_push without the upper-casing
typed_push_verbatim(typed, c) ==
  IF is_ascii_alphanumeric(c) /\ Len(typed) < Len(DANGER_CONFIRM_TOKEN)
    THEN Append(typed, c)
    ELSE typed

\* handle_pending_key, Danger arm, KeyCode::Char(c)
typed_push(typed, c) ==
  IF is_ascii_alphanumeric(c) /\ Len(typed) < Len(DANGER_CONFIRM_TOKEN)
    THEN Append(typed, to_ascii_uppercase(c))
    ELSE typed

\* handle_pending_key, Danger arm, KeyCode::Backspace: String::pop
typed_pop(typed) == IF typed = <<>> THEN typed ELSE SubSeq(typed, 1, Len(typed) - 1)

\* token_matches as a prefix test: DANGER_CONFIRM_TOKEN.starts_with(typed)
token_matches_prefix(typed) == IsPrefix(typed, DANGER_CONFIRM_TOKEN)

\* handle_pending_key, Danger arm, KeyCode::Enter: typed == DANGER_CONFIRM_TOKEN
token_matches(typed) == typed = DANGER_CONFIRM_TOKEN

\* handle_pending_key that reads the action index after it has cleared
\* pending_action
handle_pending_key_index_after_clear(m, code) ==
  LET pending == m.app.pending_action
      cleared == [m EXCEPT !.app.pending_action = NoPending]
  IN CASE pending.kind = "None" -> Returned({m}, "Ok(false)")
       [] pending.kind = "Confirm" ->
            CASE confirm_choice(code) = "yes" ->
                   Returned(execute_action(cleared, cleared.app.pending_action.action_index), "Ok(false)")
              [] confirm_choice(code) = "no" ->
                   Returned({[cleared EXCEPT !.app.last_output = MsgCancelled]}, "Ok(false)")
              [] OTHER -> Returned({m}, "Ok(false)")
       [] OTHER ->
            CASE code = Key("Esc") ->
                   Returned({[cleared EXCEPT !.app.last_output = MsgDangerCancelled]},
                            "Ok(false)")
              [] code = Key("Backspace") ->
                   Returned({[m EXCEPT !.app.pending_action.typed = typed_pop(@)]},
                            "Ok(false)")
              [] code = Key("Enter") ->
                   IF token_matches(pending.typed)
                     THEN Returned(execute_action(cleared, cleared.app.pending_action.action_index),
                                   "Ok(false)")
                     ELSE Returned({[m EXCEPT !.app.last_output = MsgMismatch]}, "Ok(false)")
              [] code.k = "Char" ->
                   Returned({[m EXCEPT !.app.pending_action.typed = typed_push(@, code.c)]},
                            "Ok(false)")
              [] OTHER -> Returned({m}, "Ok(false)")

\* App::handle_pending_key; ret is the Result<bool> it returns
handle_pending_key(m, code) ==
  LET pending == m.app.pending_action
      cleared == [m EXCEPT !.app.pending_action = NoPending]
  IN CASE pending.kind = "None" -> Returned({m}, "Ok(false)")
       [] pending.kind = "Confirm" ->
            CASE confirm_choice(code) = "yes" ->
                   Returned(execute_action(cleared, pending.action_index), "Ok(false)")
              [] confirm_choice(code) = "no" ->
                   Returned({[cleared EXCEPT !.app.last_output = MsgCancelled]}, "Ok(false)")
              [] OTHER -> Returned({m}, "Ok(false)")
       [] OTHER ->
            CASE code = Key("Esc") ->
                   Returned({[cleared EXCEPT !.app.last_output = MsgDangerCancelled]},
                            "Ok(false)")
              [] code = Key("Backspace") ->
                   Returned({[m EXCEPT !.app.pending_action.typed = typed_pop(@)]},
                            "Ok(false)")
              [] code = Key("Enter") ->
                   IF token_matches(pending.typed)
                     THEN Returned(execute_action(cleared, pending.action_index),
                                   "Ok(false)")
                     ELSE Returned({[m EXCEPT !.app.last_output = MsgMismatch]}, "Ok(false)")
              [] code.k = "Char" ->
                   Returned({[m EXCEPT !.app.pending_action.typed = typed_push(@, code.c)]},
                            "Ok(false)")
              [] OTHER -> Returned({m}, "Ok(false)")

\* App::handle_key, the match on the key code when no confirmation is pending
handle_idle_key(m, code) ==
  CASE code = Char("q") -> Returned({m}, "Ok(true)")
    [] code = Char("r") ->
         {[m |-> r.m, ret |-> IF r.ok THEN "Ok(false)" ELSE "Err"] : r \in refresh(m)}
    [] code \in {Key("Down"), Char("j")} ->
         Returned({IF m.app.tab = "Scripts" THEN next_action(m) ELSE next_bot(m)},
                  "Ok(false)")
    [] code \in {Key("Up"), Char("k")} ->
         Returned({IF m.app.tab = "Scripts" THEN prev_action(m) ELSE prev_bot(m)},
                  "Ok(false)")
    [] code \in {Key("Right"), Key("Tab")} -> Returned({next_tab(m)}, "Ok(false)")
    [] code = Key("Left") -> Returned({prev_tab(m)}, "Ok(false)")
    [] code = Char("x") -> Returned(run_selected_action(m), "Ok(false)")
    [] OTHER -> Returned({m}, "Ok(false)")

\* handle_key whose pending guard lets 'q' through
handle_key_quit_unguarded(m, code) ==
  IF m.app.pending_action.kind # "None" /\ code # Char("q")
    THEN handle_pending_key(m, code)
  ELSE handle_idle_key(m, code)

\* App::handle_key; ret is the Result<bool> it returns
handle_key(m, code) ==
  IF m.app.pending_action.kind # "None" THEN handle_pending_key(m, code)
  ELSE handle_idle_key(m, code)

\* --------------------------------------------------------- the program

VARIABLES
  app,          \* the App of run(): its fields, NoApp while there is none
  pc,           \* where main is
  raw_mode,     \* the terminal is in raw mode
  alt_screen,   \* the terminal shows the alternate screen
  run_result,   \* what run() returned: "none" | "Ok" | "Err"
  main_result,  \* what main() returned: "none" | "Ok" | "Err"
  ev,           \* what the last step of the loop did outside the App
  probe         \* input and output of a function applied on its own

vars == <<app, pc, raw_mode, alt_screen, run_result, main_result, ev, probe>>

\* ev.executed: the catalogue indices spawned by the step, in order;
\* ev.builds: the outcome of each load_snapshot call of the step, in order;
\* ev.loop: "continue" | "break" | "error" (the handler's error is returned by
\*          run) | "io_error" (draw, poll or read failed)
\* ev.step: "none" | "tick" (app.tick() ran) | "key" (a key press was handled)
\*          | "io" (the terminal failed)
NoEvent == [step |-> "none", executed |-> <<>>, builds |-> <<>>, loop |-> "continue"]
Event(step, m, loop) ==
  [step |-> step, executed |-> m.executed, builds |-> m.builds, loop |-> loop]

NoProbe == [fn |-> "none"]

\* the key presses the terminal delivers
CharKeys ==
  {"q", "r", "x", "j", "k", "y", "Y", "n", "N", "d", "e", "l", "t", "-"}
KeyCodes ==
  {Char(c) : c \in CharKeys}
  \cup {Key(k) : k \in {"Down", "Up", "Right", "Tab", "Left", "Esc", "Backspace",
                        "Enter", "F1"}}

\* the characters that are commands while no confirmation is pending
CommandChars == {"q", "r", "x", "j", "k"}

\* The operator at the keyboard types the token's letters in order, in
\* either case: a letter or digit that does not continue the token is pressed
\* only as the first character of a confirmation (a command key, pressed as if
\* no confirmation were pending), or once the token is complete.
KeysOffered(a) ==
  LET typed == a.pending_action.typed
      continues(c) == IsPrefix(Append(typed, to_ascii_uppercase(c)), DANGER_CONFIRM_TOKEN)
  IN IF a.pending_action.kind = "Danger" /\ typed # DANGER_CONFIRM_TOKEN
       THEN {code \in KeyCodes :
               (code.k = "Char" /\ is_ascii_alphanumeric(code.c)) =>
                 \/ continues(code.c)
                 \/ typed = <<>> /\ code.c \in CommandChars}
       ELSE KeyCodes

Init ==
  /\ app = NoApp
  /\ pc = "enable_raw_mode"
  /\ raw_mode = FALSE
  /\ alt_screen = FALSE
  /\ run_result = "none"
  /\ main_result = "none"
  /\ ev = NoEvent
  /\ probe = NoProbe

\* main: enable_raw_mode()?
EnableRawMode ==
  /\ pc = "enable_raw_mode"
  /\ \E ok \in BOOLEAN :
       IF ok THEN raw_mode' = TRUE /\ pc' = "enter_alt_screen" /\ main_result' = main_result
       ELSE raw_mode' = raw_mode /\ pc' = "exited" /\ main_result' = "Err"
  /\ UNCHANGED <<app, alt_screen, run_result, ev, probe>>

\* main: execute!(stdout, EnterAlternateScreen)?
EnterAlternateScreen ==
  /\ pc = "enter_alt_screen"
  /\ \E ok \in BOOLEAN :
       IF ok THEN alt_screen' = TRUE /\ pc' = "terminal_new" /\ main_result' = main_result
       ELSE alt_screen' = alt_screen /\ pc' = "exited" /\ main_result' = "Err"
  /\ UNCHANGED <<app, raw_mode, run_result, ev, probe>>

\* main: Terminal::new(backend)?
TerminalNew ==
  /\ pc = "terminal_new"
  /\ \E ok \in BOOLEAN :
       IF ok THEN pc' = "app_new" /\ main_result' = main_result
       ELSE pc' = "exited" /\ main_result' = "Err"
  /\ UNCHANGED <<app, raw_mode, alt_screen, run_result, ev, probe>>

\* run: let mut app = App::new()?
AppNew ==
  /\ pc = "app_new"
  /\ \E r \in app_new :
       IF r.ok THEN app' = r.app /\ pc' = "loop" /\ run_result' = run_result
       ELSE app' = NoApp /\ pc' = "disable_raw_mode" /\ run_result' = "Err"
  /\ UNCHANGED <<raw_mode, alt_screen, main_result, ev, probe>>

\* run: app.tick() at the head of an iteration, after due has or has not elapsed
TickStep(due) ==
  /\ pc = "loop"
  /\ \E m \in tick(Call(app), due) :
       /\ app' = m.app
       /\ ev' = Event("tick", m, "continue")
  /\ UNCHANGED <<pc, raw_mode, alt_screen, run_result, main_result>>

Tick == UNCHANGED probe /\ \E due \in BOOLEAN : TickStep(due)

\* run: terminal.draw(..)?, event::poll(..)? or event::read()? fails; run
\* returns the error and app is dropped
TerminalIoError ==
  /\ pc = "loop"
  /\ app' = NoApp
  /\ pc' = "disable_raw_mode"
  /\ run_result' = "Err"
  /\ ev' = [NoEvent EXCEPT !.step = "io", !.loop = "io_error"]
  /\ UNCHANGED <<raw_mode, alt_screen, main_result, probe>>

\* run: the key press code is read and app.handle_key(code)? decides whether
\* the loop goes on (Ok(false)), breaks (Ok(true)) or run returns the error;
\* when run returns, app is dropped
Press(code) ==
  /\ pc = "loop"
  /\ \E r \in handle_key(Call(app), code) :
       CASE r.ret = "Ok(false)" ->
              /\ app' = r.m.app /\ pc' = pc /\ run_result' = run_result
              /\ ev' = Event("key", r.m, "continue")
         [] r.ret = "Ok(true)" ->
              /\ app' = NoApp /\ pc' = "disable_raw_mode" /\ run_result' = "Ok"
              /\ ev' = Event("key", r.m, "break")
         [] OTHER ->
              /\ app' = NoApp /\ pc' = "disable_raw_mode" /\ run_result' = "Err"
              /\ ev' = Event("key", r.m, "error")
  /\ UNCHANGED <<raw_mode, alt_screen, main_result>>

KeyPress == UNCHANGED probe /\ \E code \in KeysOffered(app) : Press(code)

\* main: disable_raw_mode()?
DisableRawMode ==
  /\ pc = "disable_raw_mode"
  /\ \E ok \in BOOLEAN :
       IF ok THEN raw_mode' = FALSE /\ pc' = "leave_alt_screen" /\ main_result' = main_result
       ELSE raw_mode' = raw_mode /\ pc' = "exited" /\ main_result' = "Err"
  /\ UNCHANGED <<app, alt_screen, run_result, ev, probe>>

\* main: execute!(terminal.backend_mut(), LeaveAlternateScreen)?
LeaveAlternateScreen ==
  /\ pc = "leave_alt_screen"
  /\ \E ok \in BOOLEAN :
       IF ok THEN alt_screen' = FALSE /\ pc' = "show_cursor" /\ main_result' = main_result
       ELSE alt_screen' = alt_screen /\ pc' = "exited" /\ main_result' = "Err"
  /\ UNCHANGED <<app, raw_mode, run_result, ev, probe>>

\* main: terminal.show_cursor()? and then run_result is returned
ShowCursor ==
  /\ pc = "show_cursor"
  /\ \E ok \in BOOLEAN :
       /\ pc' = "exited"
       /\ main_result' = IF ok THEN run_result ELSE "Err"
  /\ UNCHANGED <<app, raw_mode, alt_screen, run_result, ev, probe>>

Next ==
  \/ EnableRawMode
  \/ EnterAlternateScreen
  \/ TerminalNew
  \/ AppNew
  \/ Tick
  \/ TerminalIoError
  \/ KeyPress
  \/ DisableRawMode
  \/ LeaveAlternateScreen
  \/ ShowCursor

Spec == Init /\ [][Next]_vars

\* ------------------------------------- load_snapshot applied on its own

alpha == <<"a","l","p","h","a">>
beta == <<"b","e","t","a">>
BTC == <<"B","T","C">>
USDT == <<"U","S","D","T">>

Pm2Item(name, status) == [name |-> name, status |-> status]
Online == [some |-> TRUE, v |-> "online"]
Stopped == [some |-> TRUE, v |-> "stopped"]

\* what `pm2 jlist` can do
Pm2Samples ==
  {[kind |-> k, items |-> <<>>]
     : k \in {"spawn_error", "exit_nonzero", "bad_json", "not_array", "array"}}
  \cup
  {[kind |-> "array", items |-> <<Pm2Item(Some(alpha), Online)>>],
   [kind |-> "array",
    items |-> <<Pm2Item(Some(alpha), Online), Pm2Item(NoText, Online),
                Pm2Item(Some(beta), NoStatus), Pm2Item(Some(alpha), Stopped)>>]}

Entry(name, a, b, active) ==
  [name |-> name, asset_a |-> a, asset_b |-> b, active |-> active]

\* what profiles/bots.json can be
RegistrySamples ==
  {[kind |-> k, entries |-> <<>>]
     : k \in {"absent", "unreadable", "malformed", "parsed"}}
  \cup
  {[kind |-> "parsed", entries |-> <<Entry(Some(alpha), BTC, USDT, Some(TRUE))>>],
   [kind |-> "parsed",
    entries |-> <<Entry(NoText, <<>>, USDT, NoFlag),
                  Entry(Some(alpha), BTC, USDT, Some(FALSE))>>],
   [kind |-> "parsed",
    entries |-> <<Entry(Some(beta), BTC, <<>>, Some(FALSE)),
                  Entry(Some(alpha), BTC, USDT, NoFlag),
                  Entry(NoText, BTC, USDT, Some(TRUE))>>],
   [kind |-> "parsed",
    entries |-> <<Entry(Some(alpha), BTC, USDT, Some(TRUE)),
                  Entry(Some(alpha), USDT, BTC, Some(FALSE))>>],
   [kind |-> "parsed",
    entries |-> <<Entry(Some(BotPrefix \o <<"2">>), BTC, USDT, NoFlag),
                  Entry(NoText, BTC, USDT, NoFlag)>>]}

LogFile(file_name, mtime, readable, lines) ==
  [file_name |-> file_name, mtime |-> mtime, readable |-> readable, lines |-> lines]
At(t) == [some |-> TRUE, v |-> t]

LineInfo == <<"o","k">>
LineError == <<"E","r","r","o","r"," ","x">>

LineWarn == <<"w","a","r","n",":"," ">>
LineFatal == <<"x"," ","F","a","t","a","l"," ">>

\* a log of n lines, each ending in its number; marked gives the text before
\* the number of some lines, the other lines hold no marker
NumberedLines(n, marked) ==
  [i \in 1..n |-> (IF i \in DOMAIN marked THEN marked[i] ELSE <<"n">>) \o Decimal(i)]

\* logs longer than the tail, with markers inside and outside the last lines
LongLogSamples ==
  {[dir_exists |-> TRUE, dir_readable |-> TRUE,
    files |-> <<LogFile(alpha \o DotLog, At(1), TRUE, NumberedLines(n, marked))>>]
     : n \in {TAIL_MAX_LINES, TAIL_MAX_LINES + 1, TAIL_MAX_LINES + 2},
       marked \in {(1 :> LineError), (1 :> LineError) @@ (2 :> LineWarn),
                   (5 :> LineWarn) @@ (TAIL_MAX_LINES :> LineFatal)}}

\* what profiles/logs can be
LogSamples ==
  LongLogSamples \cup
  {NoLogs,
   [dir_exists |-> TRUE, dir_readable |-> FALSE, files |-> <<>>],
   [dir_exists |-> TRUE, dir_readable |-> TRUE, files |-> <<>>],
   [dir_exists |-> TRUE, dir_readable |-> TRUE,
    files |-> <<LogFile(alpha \o DotLog, At(1), TRUE, <<LineInfo, LineError>>)>>],
   [dir_exists |-> TRUE, dir_readable |-> TRUE,
    files |-> <<LogFile(alpha \o DotLog, At(1), FALSE, <<>>),
                LogFile(<<"B","e","t","a","-","1">> \o DotLog, NoTime, TRUE, <<LineInfo>>)>>],
   [dir_exists |-> TRUE, dir_readable |-> TRUE,
    files |-> <<LogFile(alpha \o <<"-","o","l","d">> \o DotLog, At(5), TRUE, <<LineError>>),
                LogFile(alpha \o DotLog, At(1), TRUE, <<LineInfo>>)>>],
   [dir_exists |-> TRUE, dir_readable |-> TRUE,
    files |-> <<LogFile(<<"x","-">> \o alpha \o DotLog, At(2), TRUE, <<LineInfo>>),
                LogFile(<<"o","l","d","-">> \o alpha \o DotLog, At(3), TRUE, <<LineError>>),
                LogFile(beta \o <<".","t","x","t">>, At(4), TRUE, <<LineError>>)>>]}

SnapshotWorlds ==
  {[pm2 |-> p, registry |-> r, logs |-> l]
     : p \in Pm2Samples, r \in RegistrySamples, l \in LogSamples}

NoBuild == [ok |-> FALSE, err |-> "", snapshot |-> EmptySnapshot]

\* the dashboard is not running: only load_snapshot is applied, to one world
SnapshotInit ==
  /\ app = NoApp
  /\ pc = "load_snapshot"
  /\ raw_mode = FALSE
  /\ alt_screen = FALSE
  /\ run_result = "none"
  /\ main_result = "none"
  /\ ev = NoEvent
  /\ probe \in {[fn |-> "load_snapshot", world |-> w, done |-> FALSE, out |-> NoBuild]
                  : w \in SnapshotWorlds}

\* state::load_snapshot()
LoadSnapshot ==
  /\ pc = "load_snapshot"
  /\ ~probe.done
  /\ probe' = [probe EXCEPT !.done = TRUE, !.out = load_snapshot(probe.world)]
  /\ UNCHANGED <<app, pc, raw_mode, alt_screen, run_result, main_result, ev>>

SnapshotNext == LoadSnapshot

SnapshotSpec == SnapshotInit /\ [][SnapshotNext]_vars

\* --------------------------------------- a confirmation typed key by key

\* every way of typing the letters of s in lower or upper case
RECURSIVE CaseVariants(_)
CaseVariants(s) ==
  IF s = <<>> THEN {<<>>}
  ELSE {<<c>> \o rest : c \in {to_ascii_lowercase(s[1]), to_ascii_uppercase(s[1])},
                        rest \in CaseVariants(Tail(s))}

\* the words the operator types into the confirmation: the token and each of
\* its prefixes in every mix of cases, and words with a letter that is not
\* the token's
TypedWords ==
  UNION {CaseVariants(SubSeq(DANGER_CONFIRM_TOKEN, 1, n))
           : n \in 0..Len(DANGER_CONFIRM_TOKEN)}
  \cup {<<"d","e","l","e","t","x">>, <<"D","E","L","E","T","E","E">>,
        <<"D","-","E","L","E","T","E">>}

Repeat(x, n) == [i \in 1..n |-> x]

\* from the fresh App: to the Scripts tab, up to a Danger action, arm it,
\* type the word, submit
TypingScript(ups, word) ==
  <<Key("Right"), Key("Right")>> \o Repeat(Key("Up"), ups) \o <<Char("x")>>
    \o [i \in DOMAIN word |-> Char(word[i])] \o <<Key("Enter")>>

TypingInit ==
  /\ app \in {r.app : r \in {b \in app_new : b.ok}}
  /\ pc = "loop"
  /\ raw_mode = TRUE
  /\ alt_screen = TRUE
  /\ run_result = "none"
  /\ main_result = "none"
  /\ ev = NoEvent
  /\ probe \in {[fn |-> "script", keys |-> TypingScript(ups, word), word |-> word,
                 pos |-> 0]
                  : ups \in 1..Cardinality(IndicesOfRisk("Danger")), word \in TypedWords}

\* run: the next key of the script is read and handled
ScriptPress ==
  /\ probe.pos < Len(probe.keys)
  /\ Press(probe.keys[probe.pos + 1])
  /\ probe' = [probe EXCEPT !.pos = @ + 1]

TypingNext == ScriptPress

TypingSpec == TypingInit /\ [][TypingNext]_vars

\* ------------------------------ a Danger confirmation edited key by key

\* the Apps a sequence of key presses leads to, each handled by handle_key
RECURSIVE apply_keys(_, _)
apply_keys(apps, keys) ==
  IF keys = <<>> THEN apps
  ELSE apply_keys({r.m.app : r \in UNION {handle_key(Call(a), keys[1]) : a \in apps}},
                  Tail(keys))

\* the fresh App taken to the Scripts tab and up to a Danger action, which 'x' arms
ArmedApps ==
  UNION {apply_keys({r.app : r \in {b \in app_new : b.ok}},
                    <<Key("Right"), Key("Right")>> \o Repeat(Key("Up"), ups)
                      \o <<Char("x")>>)
           : ups \in 1..Cardinality(IndicesOfRisk("Danger"))}

\* the keys pressed while the confirmation is edited
EditKeys ==
  {Char("d"), Char("E"), Char("1"), Char("-"), Key("Backspace"), Key("Enter"),
   Key("Esc"), Key("F1")}

EditingInit ==
  /\ app \in ArmedApps
  /\ pc = "loop"
  /\ raw_mode = TRUE
  /\ alt_screen = TRUE
  /\ run_result = "none"
  /\ main_result = "none"
  /\ ev = NoEvent
  /\ probe = [fn |-> "edit", last |-> Key("none")]

\* run: a key is read and handled while the Danger confirmation is pending;
\* probe.last keeps the key
EditPress ==
  /\ app.pending_action.kind = "Danger"
  /\ \E code \in EditKeys :
       /\ Press(code)
       /\ probe' = [probe EXCEPT !.last = code]

EditingNext == EditPress

EditingSpec == EditingInit /\ [][EditingNext]_vars

\* ------------------------------------------------------------- properties

Running == pc = "loop"
Idle == app.pending_action.kind = "None"
BuildErrors == {r.err : r \in {b \in Builds : ~b.ok}}
BuiltSnapshots == {r.snapshot : r \in {b \in Builds : b.ok}}

\* C1: when 'r' is handled in Idle and load_snapshot fails, the error text
\* becomes last_output, the snapshot stays, and handle_key returns no error
\* (the loop continues); when it succeeds the snapshot is replaced and
\* selected_bot is clamped into range.
C1_RefreshFailureIsSurfaced ==
  [][(Running /\ Idle /\ Press(Char("r"))) =>
       IF ev'.builds = <<"err">>
         THEN /\ ev'.loop = "continue"
              /\ pc' = "loop"
              /\ app'.snapshot = app.snapshot
              /\ \E e \in BuildErrors : e \in Range(app'.last_output)
         ELSE /\ ev'.builds = <<"ok">>
              /\ app'.snapshot \in BuiltSnapshots
              /\ app'.snapshot.bots # <<>> =>
                   app'.selected_bot = Min(app.selected_bot, Len(app'.snapshot.bots) - 1)
    ]_vars

\* C2: once the loop runs, it ends only by handling 'q' while no confirmation
\* is pending; no load_snapshot failure and no action failure ends it.
\* (A failure of the terminal itself, in draw, poll or read, is not among the
\* events the claim ranges over.)
C2_LoopEndsOnlyByQuit ==
  [][(Running /\ pc' # "loop" /\ ev'.loop # "io_error") =>
       /\ ev'.loop = "break"
       /\ Idle
       /\ Press(Char("q"))
       /\ run_result' = "Ok"
    ]_vars


\* C3: a Danger action is spawned only by a step that handles Enter while the
\* pending state is Danger with that action's index and typed equal to
\* DANGER_CONFIRM_TOKEN, and that step clears the pending state and spawns the
\* stored index; Enter with any other typed text spawns nothing, keeps the
\* pending state and typed, and sets last_output to the mismatch notice.
C3_DangerNeedsExactToken ==
  [][Running =>
       /\ ev'.executed # <<>> =>
          \A i \in IndicesOfRisk("Danger") :
            i \in Range(ev'.executed) =>
              /\ app.pending_action = PendingDanger(i, DANGER_CONFIRM_TOKEN)
              /\ Press(Key("Enter"))
              /\ app'.pending_action = NoPending
              /\ ev'.executed = <<i>>
       /\ (app.pending_action.kind = "Danger" /\ ev'.step = "key"
             /\ Press(Key("Enter"))) =>
            IF app.pending_action.typed = DANGER_CONFIRM_TOKEN
              THEN /\ app'.pending_action = NoPending
                   /\ ev'.executed = <<app.pending_action.action_index>>
              ELSE /\ ev'.executed = <<>>
                   /\ app' = [app EXCEPT !.last_output = MsgMismatch]
                   /\ contains(MsgMismatch, DANGER_CONFIRM_TOKEN)
    ]_vars

\* a Danger action has just been spawned
C3_Witness ==
  /\ Running
  /\ ev.executed # <<>>
  /\ ev.executed[1] \in IndicesOfRisk("Danger")
  /\ app.pending_action = NoPending

ScriptDone == probe.fn = "script" /\ probe.pos = Len(probe.keys)
WrongCaseTokens == CaseVariants(DANGER_CONFIRM_TOKEN) \ {DANGER_CONFIRM_TOKEN}
StrictPrefixWords ==
  UNION {CaseVariants(SubSeq(DANGER_CONFIRM_TOKEN, 1, n))
           : n \in 0..(Len(DANGER_CONFIRM_TOKEN) - 1)}

\* C4 as claimed: after a Danger action is armed, the token typed with at
\* least one letter in lower case, then Enter, spawns nothing.
C4_WrongCaseIsRefused ==
  (ScriptDone /\ probe.word \in WrongCaseTokens) => ev.executed = <<>>

\* C4 as amended: after a Danger action is armed, the token's letters typed
\* in any mix of cases, then Enter, spawn the armed action (each letter is
\* upper-cased as it is typed); a strict prefix of the token, in any mix of
\* cases, then Enter, spawns nothing and leaves the confirmation pending.
C4_AnyCaseTokenExecutes ==
  ScriptDone =>
    /\ probe.word \in CaseVariants(DANGER_CONFIRM_TOKEN) =>
         /\ Len(ev.executed) = 1
         /\ ev.executed[1] \in IndicesOfRisk("Danger")
         /\ app.pending_action = NoPending
    /\ probe.word \in StrictPrefixWords =>
         /\ ev.executed = <<>>
         /\ app.pending_action.kind = "Danger"
         /\ app.pending_action.typed = str_to_ascii_uppercase(probe.word)

\* the token typed in lower case was submitted and the action was spawned
C4_Witness ==
  /\ ScriptDone
  /\ probe.word = to_lowercase(DANGER_CONFIRM_TOKEN)
  /\ ev.executed # <<>>

\* C5: while Confirm{i} is pending, 'y'/'Y' clears it and spawns exactly
\* action i; 'n'/'N'/Esc clears it, spawns nothing and sets last_output to the
\* cancellation notice; every other key changes nothing; and a Confirm
\* action is spawned in no other way.
C5_ConfirmProtocol ==
  [][Running =>
       /\ (app.pending_action.kind = "Confirm" /\ ev'.step = "key") =>
          \A code \in KeyCodes :
            Press(code) =>
              CASE code \in {Char("y"), Char("Y")} ->
                     /\ app'.pending_action = NoPending
                     /\ ev'.executed = <<app.pending_action.action_index>>
                     /\ pc' = "loop"
                [] code \in {Char("n"), Char("N"), Key("Esc")} ->
                     /\ app' = [app EXCEPT !.pending_action = NoPending,
                                           !.last_output = MsgCancelled]
                     /\ ev'.executed = <<>>
                     /\ pc' = "loop"
                [] OTHER ->
                     /\ app' = app
                     /\ ev'.executed = <<>> /\ ev'.builds = <<>>
                     /\ pc' = "loop"
       /\ ev'.executed # <<>> =>
          \A i \in IndicesOfRisk("Confirm") :
            i \in Range(ev'.executed) =>
              /\ app.pending_action = PendingConfirm(i)
              /\ Press(Char("y")) \/ Press(Char("Y"))
    ]_vars

\* a Confirm action has just been spawned by the yes
C5_Witness ==
  /\ Running
  /\ ev.executed # <<>>
  /\ ev.executed[1] \in IndicesOfRisk("Confirm")
  /\ app.pending_action = NoPending

\* C6: 'x' handled in Idle dispatches on the selected action's risk: Safe is
\* spawned in that step and the state stays Idle; Confirm is not spawned and
\* the state becomes Confirm{selected_action}; Danger is not spawned and the
\* state becomes Danger{selected_action, typed = ""}.
C6_RiskDispatch ==
  [][(Running /\ Idle /\ ev'.step = "key" /\ Press(Char("x"))) =>
       LET sel == app.selected_action
           risk == ActionAt(sel).risk
       IN /\ pc' = "loop"
          /\ app'.selected_action = sel
          /\ CASE risk = "Safe" ->
                    ev'.executed = <<sel>> /\ app'.pending_action = NoPending
               [] risk = "Confirm" ->
                    ev'.executed = <<>> /\ app'.pending_action = PendingConfirm(sel)
               [] OTHER ->
                    ev'.executed = <<>> /\ app'.pending_action = PendingDanger(sel, <<>>)
    ]_vars

\* a Confirm action is armed and nothing was spawned
C6_Witness ==
  /\ Running
  /\ app.pending_action.kind = "Confirm"
  /\ app.pending_action.action_index = app.selected_action
  /\ ev.executed = <<>>

ModalKeys ==
  {Char("q"), Char("r"), Char("x"), Char("j"), Char("k"), Key("Down"), Key("Up"),
   Key("Left"), Key("Right"), Key("Tab")}

\* C7: there is at most one pending confirmation, and while there is one the
\* quit, refresh, up/down, left/right/tab and run-action keys do not end the
\* loop, do not rebuild the snapshot, do not change tab, selected_bot or
\* selected_action, and neither arm nor spawn an action.
C7_ModalExclusivity ==
  [][Running =>
       /\ app.pending_action.kind \in {"None", "Confirm", "Danger"}
       /\ ~Idle =>
            \/ /\ pc' = "loop" /\ run_result' = run_result
               /\ ev'.builds = <<>> /\ ev'.executed = <<>>
               /\ app'.snapshot = app.snapshot
               /\ app'.tab = app.tab
               /\ app'.selected_bot = app.selected_bot
               /\ app'.selected_action = app.selected_action
               /\ app'.pending_action.kind = app.pending_action.kind
               /\ app'.pending_action.action_index = app.pending_action.action_index
            \/ ev'.step # "key"
            \/ \A code \in ModalKeys : ~Press(code)
    ]_vars

\* 'q' was handled while a Danger confirmation is pending: it was typed into
\* the confirmation and the loop still runs
C7_Witness ==
  /\ Running
  /\ app.pending_action.kind = "Danger"
  /\ app.pending_action.typed = <<"Q">>

\* C8: a tick whose interval has elapsed rebuilds the snapshot in Idle and
\* under a pending confirmation alike; it leaves the pending confirmation,
\* tab and selected_action as they are; a successful rebuild leaves
\* last_output as it is; a failed one is reported in last_output, leaves the
\* snapshot as it is, and does not end the loop.
C8_TickRebuildsSilently ==
  [][(Running /\ ev'.step = "tick" /\ TickStep(TRUE)) =>
       /\ pc' = "loop" /\ run_result' = run_result
       /\ app'.pending_action = app.pending_action
       /\ app'.tab = app.tab
       /\ app'.selected_action = app.selected_action
       /\ ev'.executed = <<>>
       /\ \/ /\ ev'.builds = <<"ok">>
             /\ app'.snapshot \in BuiltSnapshots
             /\ app'.last_output = app.last_output
          \/ /\ ev'.builds = <<"err">>
             /\ app'.snapshot = app.snapshot
             /\ \E e \in BuildErrors : app'.last_output = MsgAutoRefreshFailed \o <<e>>
    ]_vars

\* a tick failed to rebuild while a Danger confirmation with typed text is pending
C8_Witness ==
  /\ Running
  /\ app.pending_action.kind = "Danger"
  /\ app.pending_action.typed # <<>>
  /\ ev.builds = <<"err">>
  /\ IsPrefix(MsgAutoRefreshFailed, app.last_output)

\* C9: while the dashboard runs, a snapshot with bots has selected_bot below
\* their number and the bot list selects it, a snapshot without bots has no
\* bot selected, and selected_action is below the number of actions.
C9_SelectionsInRange ==
  Running =>
    /\ app.snapshot.bots # <<>> =>
         /\ app.selected_bot < Len(app.snapshot.bots)
         /\ app.bot_list_state = Some(app.selected_bot)
    /\ app.snapshot.bots = <<>> => app.bot_list_state = NoIndex
    /\ app.selected_action < Len(dashboard_actions)

\* a rebuild has just stored a snapshot of several bots with the last one selected
C9_Witness ==
  /\ Running
  /\ ev.builds = <<"ok">>
  /\ app.selected_bot > 0
  /\ app.selected_bot = Len(app.snapshot.bots) - 1

\* C10: load_snapshot is total: whatever the supervisor, the registry file and
\* the log files do, it returns a Snapshot and never an error.
C10_LoadSnapshotTotal ==
  (probe.fn = "load_snapshot" /\ probe.done) => probe.out.ok

\* C11: whenever main has returned after enable_raw_mode succeeded, raw mode
\* is disabled and the alternate screen has been left.
C11_TerminalRestoredOnExit ==
  pc = "exited" => (~raw_mode /\ ~alt_screen)

\* the messages DashboardAction::execute can produce for catalogue index i
ActionMessages(i) == {execute(ActionAt(i), run).text : run \in ChildRuns}

\* C12: every step that spawns an action spawns exactly one, sets last_output
\* to that action's message, runs load_snapshot exactly once and goes on with
\* the loop; when that load_snapshot fails the snapshot is kept.
C12_ExecutionThenSilentRebuild ==
  [][(Running /\ ev'.executed # <<>>) =>
       /\ Len(ev'.executed) = 1
       /\ pc' = "loop" /\ ev'.loop = "continue"
       /\ app'.last_output \in ActionMessages(ev'.executed[1])
       /\ Len(ev'.builds) = 1
       /\ ev'.builds = <<"err">> => app'.snapshot = app.snapshot
    ]_vars

\* an action counts as successful exactly when it ran and its exit status is zero
SucceededRun(run) == run.spawned /\ run.code = Some(0)
ExpectedBody(run) ==
  IF trim(run.stdout) # <<>> THEN trim(run.stdout) ELSE trim(run.stderr)

\* C13: a step that spawns action i goes on with the loop (the handler returns
\* Ok(false)) and leaves no confirmation pending; last_output is the text
\* execute returns for what the child did: execute succeeds exactly when the
\* child ran and exited with status zero, the text of a success is the risk
\* label and name followed by the trimmed stdout, or the trimmed stderr when
\* the trimmed stdout is empty, and the text of a failure is the error's text.
C13_FailureIsSurfaced ==
  [][(Running /\ ev'.executed # <<>>) =>
       LET i == ev'.executed[1]
           head == <<"[", RiskLabel(ActionAt(i).risk), "] ", ActionAt(i).name, "\n">>
       IN /\ pc' = "loop" /\ ev'.loop = "continue"
          /\ app'.pending_action = NoPending
          /\ \E run \in ChildRuns :
               LET r == execute(ActionAt(i), run)
               IN /\ app'.last_output = r.text
                  /\ r.ok => r.text = head \o ExpectedBody(run)
          /\ \A run \in ChildRuns : execute(ActionAt(i), run).ok <=> SucceededRun(run)
    ]_vars

\* a Danger action was spawned, ended by a signal, and its error is shown
C13_Witness ==
  /\ Running
  /\ ev.executed # <<>>
  /\ ev.executed[1] \in IndicesOfRisk("Danger")
  /\ app.pending_action = NoPending
  /\ \E run \in ChildRuns :
       /\ run.spawned /\ ~run.code.some
       /\ app.last_output = execute(ActionAt(ev.executed[1]), run).text

UpperAlphanumeric == Range(UpperLetters) \cup Range(Digits)

\* C14: while a Danger confirmation is pending, typed is at most as long as
\* the token and holds only upper-case letters and digits; a letter or digit
\* key appends its upper-case form while typed is shorter than the token and
\* changes nothing otherwise; any other character key leaves typed as it is;
\* Backspace removes the last character, or nothing from an empty typed.
C14_TypedIsBounded ==
  [][(Running /\ app.pending_action.kind = "Danger") =>
       LET typed == app.pending_action.typed
           code == probe'.last
       IN /\ Len(typed) <= Len(DANGER_CONFIRM_TOKEN)
          /\ Range(typed) \subseteq UpperAlphanumeric
          /\ code.k = "Char" =>
               /\ app'.pending_action.kind = "Danger"
               /\ app'.pending_action.typed =
                    IF code.c \in AsciiAlphanumeric /\ Len(typed) < Len(DANGER_CONFIRM_TOKEN)
                      THEN Append(typed, to_ascii_uppercase(code.c))
                      ELSE typed
          /\ code = Key("Backspace") =>
               /\ app'.pending_action.kind = "Danger"
               /\ app'.pending_action.typed =
                    IF typed = <<>> THEN <<>> ELSE SubSeq(typed, 1, Len(typed) - 1)
    ]_vars

\* typed is as long as the token and a further letter has just been dropped
C14_Witness ==
  /\ Running
  /\ probe.fn = "edit"
  /\ probe.last = Char("d")
  /\ app.pending_action.kind = "Danger"
  /\ Len(app.pending_action.typed) = Len(DANGER_CONFIRM_TOKEN)
  /\ app.pending_action.typed[Len(DANGER_CONFIRM_TOKEN)] # "D"

IndexAfter(i, n) == IF i = n - 1 THEN 0 ELSE i + 1
IndexBefore(i, n) == IF i = 0 THEN n - 1 ELSE i - 1

\* C15: in Idle, Down/'j' and Up/'k' move selected_action on the Scripts tab
\* and selected_bot on every other tab and leave the other index as it is;
\* next from the last index gives 0 and previous from 0 gives the last index;
\* with no bots the bot selection becomes none (and selected_bot 0).
C15_NavigationWraps ==
  [][(Running /\ Idle /\ ev'.step = "key") =>
       LET nb == Len(app.snapshot.bots)
           na == Len(dashboard_actions)
           Moved(to(_, _)) ==
             /\ pc' = "loop"
             /\ app'.tab = app.tab
             /\ app'.snapshot = app.snapshot
             /\ app'.pending_action = NoPending
             /\ IF app.tab = "Scripts"
                  THEN /\ app'.selected_action = to(app.selected_action, na)
                       /\ app'.action_list_state = Some(app'.selected_action)
                       /\ app'.selected_bot = app.selected_bot
                       /\ app'.bot_list_state = app.bot_list_state
                  ELSE /\ app'.selected_action = app.selected_action
                       /\ app'.action_list_state = app.action_list_state
                       /\ IF nb = 0
                            THEN app'.selected_bot = 0 /\ app'.bot_list_state = NoIndex
                            ELSE /\ app'.selected_bot = to(app.selected_bot, nb)
                                 /\ app'.bot_list_state = Some(app'.selected_bot)
       IN /\ Moved(IndexAfter) \/ (~Press(Key("Down")) /\ ~Press(Char("j")))
          /\ Moved(IndexBefore) \/ (~Press(Key("Up")) /\ ~Press(Char("k")))
    ]_vars

\* on the Scripts tab the last action is selected, and the last of several
\* bots was selected on another tab before
C15_Witness ==
  /\ Running /\ Idle
  /\ ev.step = "key"
  /\ app.tab = "Scripts"
  /\ app.selected_action = Len(dashboard_actions) - 1
  /\ app.selected_bot > 0
  /\ app.selected_bot = Len(app.snapshot.bots) - 1
  /\ ev.executed = <<>> /\ ev.builds = <<>>

\* load_snapshot has returned a Snapshot built from a parsed registry
Built == probe.fn = "load_snapshot" /\ probe.done /\ probe.out.ok
BuiltFromRegistry == Built /\ probe.world.registry.kind = "parsed"
NoSupervisor == probe.world.pm2.kind # "array"

\* C16: for a registry of N entries and no supervisor, the snapshot has N
\* bots in the order of the entries (each with its entry's name and pair),
\* pm2_online is false, pm2_processes is 0, and warnings is at least 1 plus
\* the number of entries with an empty assetA or assetB.
C16_RegistryWithoutSupervisor ==
  (probe.fn = "load_snapshot" /\ probe.done
     /\ probe.world.registry.kind = "parsed" /\ NoSupervisor) =>
    LET entries == probe.world.registry.entries
        snap == probe.out.snapshot
        bad == {i \in DOMAIN entries :
                  entries[i].asset_a = <<>> \/ entries[i].asset_b = <<>>}
    IN /\ probe.out.ok
       /\ Len(snap.bots) = Len(entries)
       /\ \A i \in DOMAIN entries :
            /\ entries[i].name.some => snap.bots[i].name = entries[i].name.v
            /\ i \notin bad =>
                 snap.bots[i].pair = entries[i].asset_a \o <<"/">> \o entries[i].asset_b
       /\ snap.pm2_online = FALSE
       /\ snap.pm2_processes = 0
       /\ snap.warnings >= 1 + Cardinality(bad)

\* three entries, one with an empty asset, and the supervisor cannot be run
C16_Witness ==
  /\ BuiltFromRegistry
  /\ probe.world.pm2.kind = "spawn_error"
  /\ Len(probe.out.snapshot.bots) = 3
  /\ probe.out.snapshot.bots[1].pair = SentinelPair
  /\ probe.out.snapshot.warnings >= 2

\* C17: a bot's runtime_status is a status the supervisor reports for its
\* name when it reports one (also when the entry is inactive), else
\* "not-running" when the entry is active, else "disabled"; active is true
\* when the entry omits it. The entry {alpha, BTC, USDT, active true} with no
\* process of that name and no log file gives name alpha, pair BTC/USDT,
\* not-running, no log path, and no warning beyond the supervisor's.
C17_RuntimeStatusPrecedence ==
  BuiltFromRegistry =>
    LET entries == probe.world.registry.entries
        snap == probe.out.snapshot
        items == IF probe.world.pm2.kind = "array" THEN probe.world.pm2.items ELSE <<>>
        reported(n) == {IF items[j].status.some THEN items[j].status.v ELSE "unknown"
                          : j \in {k \in DOMAIN items :
                                     items[k].name.some /\ items[k].name.v = n}}
    IN /\ \A i \in DOMAIN snap.bots :
            LET bot == snap.bots[i]
                active == IF entries[i].active.some THEN entries[i].active.v ELSE TRUE
            IN /\ bot.active = active
               /\ IF reported(bot.name) # {} THEN bot.runtime_status \in reported(bot.name)
                  ELSE IF active THEN bot.runtime_status = "not-running"
                  ELSE bot.runtime_status = "disabled"
       /\ (/\ entries = <<Entry(Some(alpha), BTC, USDT, Some(TRUE))>>
           /\ reported(alpha) = {}
           /\ probe.world.logs.files = <<>>) =>
            /\ snap.bots = <<[name |-> alpha,
                              pair |-> <<"B","T","C","/","U","S","D","T">>,
                              active |-> TRUE, runtime_status |-> "not-running",
                              log_path |-> NoText, log_tail |-> <<>>]>>
            /\ snap.warnings = IF snap.pm2_online THEN 0 ELSE 1

\* an inactive entry whose name the supervisor reports shows the live status
C17_Witness ==
  /\ BuiltFromRegistry
  /\ \E i \in DOMAIN probe.out.snapshot.bots :
       /\ ~probe.out.snapshot.bots[i].active
       /\ probe.out.snapshot.bots[i].runtime_status \in {"online", "stopped"}

\* C18: no two bots of a snapshot have the same name.
C18_BotNamesUnique ==
  Built =>
    LET bots == probe.out.snapshot.bots
    IN \A i, j \in DOMAIN bots : i # j => bots[i].name # bots[j].name

\* C19: when the supervisor's query succeeds, pm2_processes is the number of
\* elements of the array it returned.
C19_ProcessCountIsArrayLength ==
  (Built /\ probe.world.pm2.kind = "array") =>
    probe.out.snapshot.pm2_processes = Len(probe.world.pm2.items)

\* C20: a bot's log path is <name>.log in the logs directory when that file
\* exists, whatever the other files' modification times; else none when the
\* directory is missing; else a .log file the directory lists whose name
\* contains the bot's name, letter case ignored, and than which no other such
\* file was modified later; else none.
C20_LogPathResolution ==
  BuiltFromRegistry =>
    LET logs == probe.world.logs
        files == Range(logs.files)
        bots == probe.out.snapshot.bots
        named(n) == {f \in files : f.file_name = n \o DotLog}
        listed == IF logs.dir_readable THEN files ELSE {}
        matching(n) ==
          {f \in listed :
             /\ Len(f.file_name) > Len(DotLog)
             /\ SubSeq(f.file_name, Len(f.file_name) - Len(DotLog) + 1,
                       Len(f.file_name)) = DotLog
             /\ contains(to_lowercase(f.file_name), to_lowercase(n))}
        later(f, g) == f.mtime.some /\ (~g.mtime.some \/ f.mtime.v > g.mtime.v)
    IN \A i \in DOMAIN bots :
         LET n == bots[i].name
             path == bots[i].log_path
         IN IF logs.dir_exists /\ named(n) # {}
              THEN path = Some(LogsDirPrefix \o n \o DotLog)
            ELSE IF ~logs.dir_exists THEN path = NoText
            ELSE IF matching(n) = {} THEN path = NoText
            ELSE \E f \in matching(n) :
                   /\ path = Some(LogsDirPrefix \o f.file_name)
                   /\ \A g \in matching(n) : ~later(g, f)

\* alpha.log is chosen although alpha-old.log was modified later
C20_Witness ==
  /\ BuiltFromRegistry
  /\ \E i \in DOMAIN probe.out.snapshot.bots :
       /\ probe.out.snapshot.bots[i].name = alpha
       /\ probe.out.snapshot.bots[i].log_path = Some(LogsDirPrefix \o alpha \o DotLog)
  /\ \E j, k \in DOMAIN probe.world.logs.files :
       /\ probe.world.logs.files[j].file_name = alpha \o DotLog
       /\ contains(probe.world.logs.files[k].file_name, alpha)
       /\ probe.world.logs.files[k].mtime.some
       /\ probe.world.logs.files[j].mtime.some
       /\ probe.world.logs.files[k].mtime.v > probe.world.logs.files[j].mtime.v

\* ------------------------------------------------------------ C22

TabRing == <<"Overview", "BotDetail", "Scripts", "Alerts">>
TabPosition(t) == CHOOSE i \in 1..Len(TabRing) : TabRing[i] = t
TabAfter(t) == TabRing[(TabPosition(t) % Len(TabRing)) + 1]
TabBefore(t) == TabRing[((TabPosition(t) + Len(TabRing) - 2) % Len(TabRing)) + 1]

\* C22 as stated: Right and Tab advance the tab along the ring Overview ->
\* BotDetail -> Scripts -> Alerts -> Overview and Left retreats along it,
\* whether or not a confirmation is pending.
C22_TabsCycleRegardlessOfPending ==
  [][(Running /\ ev'.step = "key") =>
       /\ \A code \in {Key("Right"), Key("Tab")} :
            Press(code) => app'.tab = TabAfter(app.tab)
       /\ Press(Key("Left")) => app'.tab = TabBefore(app.tab)
    ]_vars

\* C22 amended: while no confirmation is pending, Right and Tab advance the
\* tab along the ring Overview -> BotDetail -> Scripts -> Alerts -> Overview
\* and Left retreats along it; next_tab and prev_tab are inverses and four
\* advances return to the start; while a confirmation is pending, Right, Tab
\* and Left leave the tab as it is.
C22_TabsCycleWhenIdle ==
  [][(Running /\ ev'.step = "key") =>
       /\ prev_tab(next_tab(Call(app))).app.tab = app.tab
       /\ next_tab(prev_tab(Call(app))).app.tab = app.tab
       /\ next_tab(next_tab(next_tab(next_tab(Call(app))))).app.tab = app.tab
       /\ \A code \in {Key("Right"), Key("Tab")} :
            \/ pc' = "loop" /\ app'.tab = (IF Idle THEN TabAfter(app.tab) ELSE app.tab)
            \/ ~Press(code)
       /\ \/ pc' = "loop" /\ app'.tab = (IF Idle THEN TabBefore(app.tab) ELSE app.tab)
          \/ ~Press(Key("Left"))
    ]_vars

\* a key was handled under a pending confirmation after the tab had been
\* cycled to the last one of the ring
C22_Witness ==
  /\ Running
  /\ ~Idle
  /\ app.tab = "Alerts"
  /\ ev.step = "key"
  /\ ev.executed = <<>>

\* ------------------------------------------------------------ C23

\* the bots of snapshot s whose tailed log holds an error marker
MarkedBots(s) ==
  {i \in DOMAIN s.bots :
     \E k \in DOMAIN s.bots[i].log_tail : has_error_marker(s.bots[i].log_tail[k])}

\* C23: in every snapshot built, warnings = (1 if the process source is
\* offline) + (1 if the registry file is absent) + (the number of registry
\* entries with an empty assetA or assetB, whose pair is the sentinel "?/ ?")
\* + (the number of bots whose tailed log holds an error marker), and the
\* number of alerts is warnings minus the number of those bad pairs; a
\* registry that is present but does not parse adds neither a warning nor an
\* alert nor a bot.
C23_WarningsAndAlertsCount ==
  Built =>
    LET w == probe.world
        s == probe.out.snapshot
        offline == IF s.pm2_online THEN 0 ELSE 1
        absent == IF w.registry.kind = "absent" THEN 1 ELSE 0
        entries == IF w.registry.kind = "parsed" THEN w.registry.entries ELSE <<>>
        bad == {i \in DOMAIN entries :
                  entries[i].asset_a = <<>> \/ entries[i].asset_b = <<>>}
    IN /\ Len(s.bots) = Len(entries)
       /\ \A i \in bad : s.bots[i].pair = SentinelPair
       /\ s.warnings = offline + absent + Cardinality(bad) + Cardinality(MarkedBots(s))
       /\ Len(s.alerts) = s.warnings - Cardinality(bad)
       /\ w.registry.kind = "malformed" =>
            s.warnings = offline /\ Len(s.alerts) = offline

\* a snapshot built with the process source offline, one bad pair and one
\* bot with an error marker in its tail
C23_Witness ==
  /\ Built
  /\ ~probe.out.snapshot.pm2_online
  /\ \E i \in DOMAIN probe.out.snapshot.bots :
       probe.out.snapshot.bots[i].pair = SentinelPair
  /\ MarkedBots(probe.out.snapshot) # {}
  /\ probe.out.snapshot.warnings = 3
  /\ Len(probe.out.snapshot.alerts) = 2

\* ------------------------------------------------------------ C24

\* the file of world w that path names
LogFileAt(w, path) ==
  LET hits == {i \in DOMAIN w.logs.files :
                 LogsDirPrefix \o w.logs.files[i].file_name = path}
  IN w.logs.files[CHOOSE i \in hits : TRUE]

\* the lines of the log resolved for bot b that can be read
ReadableLines(w, b) ==
  IF b.log_path.some /\ LogFileAt(w, b.log_path.v).readable
    THEN LogFileAt(w, b.log_path.v).lines
  ELSE <<>>

\* line holds ERROR, WARN or FATAL in some mix of upper and lower case
HoldsMarker(line) ==
  \E word \in {MarkerError, MarkerWarn, MarkerFatal} :
    \E at \in 0..(Len(line) - Len(word)) :
      \A p \in 1..Len(word) : to_ascii_uppercase(line[at + p]) = word[p]

\* the last min(10, n) lines of the n lines
LastLines(lines) ==
  LET n == Len(lines)
      kept == Min(TAIL_MAX_LINES, n)
  IN [j \in 1..kept |-> lines[n - kept + j]]

\* bot b of world w has a marker among the last lines of its log
TailMarked(w, b) ==
  \E j \in DOMAIN LastLines(ReadableLines(w, b)) :
    HoldsMarker(LastLines(ReadableLines(w, b))[j])

\* C24: for every bot of a built snapshot, logTail is exactly the last
\* min(10, n) lines of its resolved log in their original order, empty when
\* the log cannot be read; the bot gets one alert naming it and one warning
\* exactly when one or more of those tailed lines holds ERROR, WARN or FATAL
\* in any case, however many lines match: the alerts naming a bot are as
\* many as the bots of that name with a marker in the tail, in registry
\* order, and the marker warnings are as many as those bots; a marker older
\* than the last 10 lines produces neither.
C24_TailAndMarkerAlert ==
  Built =>
    LET w == probe.world
        s == probe.out.snapshot
        marked == {i \in DOMAIN s.bots : TailMarked(w, s.bots[i])}
        marker_alerts == SelectSeq(s.alerts,
                                   LAMBDA a : a \notin {AlertPm2, AlertNoRegistry})
        bad == {i \in DOMAIN s.bots : s.bots[i].pair = SentinelPair}
    IN /\ \A i \in DOMAIN s.bots :
            s.bots[i].log_tail = LastLines(ReadableLines(w, s.bots[i]))
       /\ Len(marker_alerts) = Cardinality(marked)
       /\ \A k \in DOMAIN marker_alerts :
            \E i \in marked :
              /\ marker_alerts[k] = s.bots[i].name \o AlertMarkerSuffix
              /\ Cardinality({j \in marked : j < i}) = k - 1
       /\ s.warnings = Len(s.alerts) + Cardinality(bad)

\* a log of more than 10 lines was tailed: a marker stands in a line older
\* than the last 10 and none in the tail, and the bot has no alert
C24_Witness ==
  /\ Built
  /\ \E i \in DOMAIN probe.out.snapshot.bots :
       LET b == probe.out.snapshot.bots[i]
           lines == ReadableLines(probe.world, b)
       IN /\ Len(lines) > TAIL_MAX_LINES
          /\ Len(b.log_tail) = TAIL_MAX_LINES
          /\ \E j \in 1..(Len(lines) - TAIL_MAX_LINES) : HoldsMarker(lines[j])
          /\ ~TailMarked(probe.world, b)
          /\ \A k \in DOMAIN probe.out.snapshot.alerts :
               probe.out.snapshot.alerts[k] # b.name \o AlertMarkerSuffix

\* ------------------------------------------------------------ C25

\* C25: while a confirmation is pending its action index is an index of the
\* catalogue and the action there has the tier of the variant (Confirm or
\* Danger, never Safe); the index is the action selected when the
\* confirmation is armed, it stays the same through every tick and key until
\* the confirmation is cleared, and a step that spawns an action under a
\* pending confirmation spawns exactly that index and clears it.
C25_PendingIndexIsStable ==
  [][Running =>
       /\ ~Idle =>
            LET index == app.pending_action.action_index
            IN /\ index \in ActionIndices
               /\ ActionAt(index).risk = app.pending_action.kind
               /\ ActionAt(index).risk # "Safe"
               /\ (pc' = "loop" /\ app'.pending_action.kind # "None") =>
                    /\ app'.pending_action.action_index = index
                    /\ app'.pending_action.kind = app.pending_action.kind
               /\ ev'.executed # <<>> =>
                    /\ ev'.executed = <<index>>
                    /\ pc' = "loop"
                    /\ app'.pending_action = NoPending
       /\ (Idle /\ pc' = "loop" /\ app'.pending_action.kind # "None") =>
            /\ app'.pending_action.action_index = app.selected_action
            /\ app'.selected_action = app.selected_action
    ]_vars

\* a Danger action that is not the first of the catalogue has been spawned
\* by the key that confirmed it
C25_Witness ==
  /\ Running
  /\ Idle
  /\ ev.step = "key"
  /\ Len(ev.executed) = 1
  /\ ev.executed[1] # 0
  /\ ActionAt(ev.executed[1]).risk = "Danger"

====
